---------------------------- MODULE Spec2Model ----------------------------
(***************************************************************************)
(* sirena-types (src/lib.rs): the four fixed-length code types             *)
(* AircraftCode, AirlineCode, AirportCode and CityCode, their FromStr      *)
(* parsers, as_str / Display decoding, from_bytes_unchecked, and the       *)
(* derived Eq / Ord over the stored KOI8-R bytes.                          *)
(*                                                                         *)
(* A text (&str) is a sequence of Unicode scalar values (Nat); a byte      *)
(* array is a sequence of 0..255.  The KOI8_R encoder and decoder of       *)
(* encoding_rs are modelled by what they do: the encoder maps a scalar to  *)
(* its byte of the KOI8-R index or to a numeric character reference, the   *)
(* decoder sniffs a byte order mark first and then maps bytes through the  *)
(* index.                                                                  *)
(***************************************************************************)
EXTENDS Integers, Sequences, FiniteSets, TLC

VARIABLES kind, value, result, text, shown, rebuilt

vars == <<kind, value, result, text, shown, rebuilt>>

(***************************************************************************)
(* Bounds of the model and the inputs it enumerates.                       *)
(***************************************************************************)

\* longest input text, in characters
MaxLen == 4

\* '1' '5' 'A'(Latin) 'Ё' 'А' 'Ч' 'Ъ' 'Ю'
CoreChars == {49, 53, 65, 1025, 1040, 1063, 1066, 1070}

\* ' ' '/' '0' '9' ':' 'Z', U+0400..U+0430 ('Ѐ' 'Ё' 'Ђ' .. 'А'..'Я' 'а'),
\* 'ё' and '─' (three UTF-8 bytes)
WideChars == {32, 47, 48, 57, 58, 90} \cup (1024 .. 1072) \cup {1105, 9472}

\* every text over CoreChars up to MaxLen characters, and every text that
\* repeats one character of WideChars
Texts ==
    (UNION {[1 .. n -> CoreChars] : n \in 0 .. MaxLen})
    \cup {[i \in 1 .. n |-> c] : n \in 1 .. MaxLen, c \in WideChars}

Kinds == {"AircraftCode", "AirlineCode", "AirportCode", "CityCode"}

(***************************************************************************)
(* Characters and strings.                                                 *)
(***************************************************************************)

\* 'А' (U+0410) and 'Я' (U+042F), the bounds of the letter test
CYRILLIC_A == 1040
CYRILLIC_YA == 1071

\* char::is_ascii_digit: '0' ..= '9'
is_ascii_digit(c) == c >= 48 /\ c <= 57

\* number of bytes of one scalar value in UTF-8
len_utf8(c) ==
    IF c < 128 THEN 1 ELSE IF c < 2048 THEN 2 ELSE IF c < 65536 THEN 3 ELSE 4

\* str::len: the length of a text in bytes
RECURSIVE len(_)
len(s) == IF s = <<>> THEN 0 ELSE len_utf8(Head(s)) + len(Tail(s))

\* str::chars().count()
chars_count(s) == Len(s)

\* lexicographic order of two sequences of numbers
RECURSIVE seq_lt(_, _)
seq_lt(a, b) ==
    IF b = <<>> THEN FALSE
    ELSE IF a = <<>> THEN TRUE
    ELSE IF Head(a) # Head(b) THEN Head(a) < Head(b)
    ELSE seq_lt(Tail(a), Tail(b))

\* Ord for str: bytewise over UTF-8, which is the order of the scalar values
str_lt(s, t) == seq_lt(s, t)

(***************************************************************************)
(* encoding_rs::KOI8_R                                                     *)
(***************************************************************************)

\* the KOI8-R index: the scalar value of each byte 0x80..0xFF
KOI8_R_INDEX ==
    << 9472, 9474, 9484, 9488, 9492, 9496, 9500, 9508,
       9516, 9524, 9532, 9600, 9604, 9608, 9612, 9616,
       9617, 9618, 9619, 8992, 9632, 8729, 8730, 8776,
       8804, 8805, 160, 8993, 176, 178, 183, 247,
       9552, 9553, 9554, 1105, 9555, 9556, 9557, 9558,
       9559, 9560, 9561, 9562, 9563, 9564, 9565, 9566,
       9567, 9568, 9569, 1025, 9570, 9571, 9572, 9573,
       9574, 9575, 9576, 9577, 9578, 9579, 9580, 169,
       1102, 1072, 1073, 1094, 1076, 1077, 1092, 1075,
       1093, 1080, 1081, 1082, 1083, 1084, 1085, 1086,
       1087, 1103, 1088, 1089, 1090, 1091, 1078, 1074,
       1100, 1099, 1079, 1096, 1101, 1097, 1095, 1098,
       1070, 1040, 1041, 1062, 1044, 1045, 1060, 1043,
       1061, 1048, 1049, 1050, 1051, 1052, 1053, 1054,
       1055, 1071, 1056, 1057, 1058, 1059, 1046, 1042,
       1068, 1067, 1047, 1064, 1069, 1065, 1063, 1066 >>

\* the decimal digits of n as ASCII bytes
RECURSIVE decimal(_)
decimal(n) ==
    IF n < 10 THEN <<48 + n>> ELSE Append(decimal(n \div 10), 48 + (n % 10))

\* a lossy encoder: what is not ASCII becomes '?'
encode_char_lossy(c) == IF c < 128 THEN <<c>> ELSE <<63>>

\* the encoder on one scalar value: ASCII as itself, a scalar of the index
\* as its byte, anything else as the numeric character reference &#N;
encode_char(c) ==
    IF c < 128 THEN <<c>>
    ELSE IF \E i \in 1 .. 128 : KOI8_R_INDEX[i] = c
         THEN <<127 + (CHOOSE i \in 1 .. 128 : KOI8_R_INDEX[i] = c)>>
         ELSE <<38, 35>> \o decimal(c) \o <<59>>

\* KOI8_R.encode(value).0
RECURSIVE KOI8_R_encode(_)
KOI8_R_encode(s) ==
    IF s = <<>> THEN <<>> ELSE encode_char(Head(s)) \o KOI8_R_encode(Tail(s))

\* Encoding::for_bom: the encoding a leading byte order mark names, and the
\* mark's length
for_bom(bytes) ==
    IF Len(bytes) >= 3 /\ SubSeq(bytes, 1, 3) = <<239, 187, 191>>
    THEN [enc |-> "UTF-8", bom |-> 3]
    ELSE IF Len(bytes) >= 2 /\ SubSeq(bytes, 1, 2) = <<255, 254>>
    THEN [enc |-> "UTF-16LE", bom |-> 2]
    ELSE IF Len(bytes) >= 2 /\ SubSeq(bytes, 1, 2) = <<254, 255>>
    THEN [enc |-> "UTF-16BE", bom |-> 2]
    ELSE [enc |-> "KOI8-R", bom |-> 0]

\* one KOI8-R byte decoded
decode_byte(b) == IF b < 128 THEN b ELSE KOI8_R_INDEX[b - 127]

\* UTF-16 decoding with replacement: a unit that is no surrogate is its
\* scalar value, a lone surrogate and a trailing odd byte are U+FFFD
RECURSIVE decode_utf16(_, _)
decode_utf16(bytes, le) ==
    IF bytes = <<>> THEN <<>>
    ELSE IF Len(bytes) = 1 THEN <<65533>>
    ELSE LET unit == IF le THEN bytes[1] + 256 * bytes[2]
                           ELSE 256 * bytes[1] + bytes[2]
             rest == SubSeq(bytes, 3, Len(bytes))
         IN  IF unit >= 55296 /\ unit <= 57343
             THEN <<65533>> \o decode_utf16(rest, le)
             ELSE <<unit>> \o decode_utf16(rest, le)

\* Encoding::decode_without_bom_handling.  After a UTF-8 mark nothing is
\* left of an array of at most three bytes.
decode_without_bom_handling(enc, bytes) ==
    IF enc = "KOI8-R" THEN [i \in 1 .. Len(bytes) |-> decode_byte(bytes[i])]
    ELSE IF enc = "UTF-16LE" THEN decode_utf16(bytes, TRUE)
    ELSE IF enc = "UTF-16BE" THEN decode_utf16(bytes, FALSE)
    ELSE <<>>

\* KOI8_R.decode(bytes).0: decode with BOM sniffing
KOI8_R_decode(bytes) ==
    LET b == for_bom(bytes)
    IN  decode_without_bom_handling(b.enc, SubSeq(bytes, b.bom + 1, Len(bytes)))

(***************************************************************************)
(* Results of from_str.                                                    *)
(***************************************************************************)

NoBytes == <<>>

Ok(bytes) == [tag |-> "Ok", bytes |-> bytes, arg |-> 0]
InvalidLength(n) == [tag |-> "InvalidLength", bytes |-> NoBytes, arg |-> n]
InvalidLetter(c) == [tag |-> "InvalidLetter", bytes |-> NoBytes, arg |-> c]
TooManyDigits(d) == [tag |-> "TooManyDigits", bytes |-> NoBytes, arg |-> d]
\* a panic of slice::copy_from_slice (source and destination lengths differ)
Panic == [tag |-> "Panic", bytes |-> NoBytes, arg |-> 0]
\* from_str has not run yet
NoResult == [tag |-> "None", bytes |-> NoBytes, arg |-> 0]
\* the character loop ended without a rejection, having counted d digits
Scanned(d) == [tag |-> "Scanned", bytes |-> NoBytes, arg |-> d]

\* let mut bytes = [0; n]; bytes.copy_from_slice(&src); the array, or a panic
copy_from_slice(n, src) == IF Len(src) = n THEN Ok(src) ELSE Panic

(***************************************************************************)
(* gen_as!, gen_display! and the derived traits.  A code value is its byte *)
(* array.                                                                  *)
(***************************************************************************)

\* as_str: KOI8_R.decode(&self.0).0
as_str(code) == KOI8_R_decode(code)

\* as_bytes: &self.0
as_bytes(code) == code

\* Display::fmt: write!(f, "{}", self.as_str())
fmt(code) == as_str(code)

\* derive(PartialEq, Eq) on the tuple struct of one byte array
Code_eq(a, b) == a = b

\* an order taken over the decoded texts instead of the bytes
Code_lt_by_text(a, b) == str_lt(as_str(a), as_str(b))

\* derive(PartialOrd, Ord): the arrays compared lexicographically
Code_lt(a, b) == seq_lt(a, b)

(***************************************************************************)
(* AircraftCode                                                            *)
(***************************************************************************)

\* the test of one character in AircraftCode::from_str
AircraftCode_accepts(c) ==
    is_ascii_digit(c) \/ (c >= CYRILLIC_A /\ c <= CYRILLIC_YA)

\* a loop that keeps going after a rejection and reports the last one
RECURSIVE AircraftCode_scan_last(_)
AircraftCode_scan_last(s) ==
    IF s = <<>> THEN Scanned(0)
    ELSE LET r == AircraftCode_scan_last(Tail(s))
         IN  IF r.tag = "InvalidLetter" THEN r
             ELSE IF AircraftCode_accepts(Head(s)) THEN r
             ELSE InvalidLetter(Head(s))

\* for c in value.chars() { .. }: the first rejected character, or none
RECURSIVE AircraftCode_scan(_)
AircraftCode_scan(s) ==
    IF s = <<>> THEN Scanned(0)
    ELSE IF AircraftCode_accepts(Head(s)) THEN AircraftCode_scan(Tail(s))
    ELSE InvalidLetter(Head(s))

AircraftCode_from_str(v) ==
    IF chars_count(v) # 3 THEN InvalidLength(len(v))
    ELSE LET s == AircraftCode_scan(v)
         IN  IF s.tag = "InvalidLetter" THEN s
             ELSE copy_from_slice(3, KOI8_R_encode(v))

(***************************************************************************)
(* AirlineCode                                                             *)
(***************************************************************************)

\* a letter test that stops short of 'Я'
AirlineCode_is_letter_exclusive(c) == c >= CYRILLIC_A /\ c < CYRILLIC_YA

\* the letter test of one character in AirlineCode::from_str
AirlineCode_is_letter(c) == c >= CYRILLIC_A /\ c <= CYRILLIC_YA

\* the loop with its digit counter: the first rejected character, or the
\* number of digits seen
RECURSIVE AirlineCode_scan(_, _)
AirlineCode_scan(s, digits) ==
    IF s = <<>> THEN Scanned(digits)
    ELSE IF AirlineCode_is_letter(Head(s)) THEN AirlineCode_scan(Tail(s), digits)
    ELSE IF is_ascii_digit(Head(s)) THEN AirlineCode_scan(Tail(s), digits + 1)
    ELSE InvalidLetter(Head(s))

\* a digit rule that is off by one: two digits pass
AirlineCode_from_str_two_digits(v) ==
    IF chars_count(v) # 2 THEN InvalidLength(len(v))
    ELSE LET s == AirlineCode_scan(v, 0)
         IN  IF s.tag = "InvalidLetter" THEN s
             ELSE IF s.arg > 2 THEN TooManyDigits(s.arg)
             ELSE copy_from_slice(2, KOI8_R_encode(v))

AirlineCode_from_str(v) ==
    IF chars_count(v) # 2 THEN InvalidLength(len(v))
    ELSE LET s == AirlineCode_scan(v, 0)
         IN  IF s.tag = "InvalidLetter" THEN s
             ELSE IF s.arg > 1 THEN TooManyDigits(s.arg)
             ELSE copy_from_slice(2, KOI8_R_encode(v))

AirlineCode_from_bytes_unchecked(bytes) == copy_from_slice(2, bytes)

(***************************************************************************)
(* AirportCode                                                             *)
(***************************************************************************)

\* the aircraft test copied to airport codes: digits pass
AirportCode_accepts_digits(c) ==
    is_ascii_digit(c) \/ (c >= CYRILLIC_A /\ c <= CYRILLIC_YA)

\* the test of one character in AirportCode::from_str
AirportCode_accepts(c) == c >= CYRILLIC_A /\ c <= CYRILLIC_YA

RECURSIVE AirportCode_scan(_)
AirportCode_scan(s) ==
    IF s = <<>> THEN Scanned(0)
    ELSE IF AirportCode_accepts(Head(s)) THEN AirportCode_scan(Tail(s))
    ELSE InvalidLetter(Head(s))

AirportCode_from_str(v) ==
    IF chars_count(v) # 3 THEN InvalidLength(len(v))
    ELSE LET s == AirportCode_scan(v)
         IN  IF s.tag = "InvalidLetter" THEN s
             ELSE copy_from_slice(3, KOI8_R_encode(v))

AirportCode_from_bytes_unchecked(bytes) == copy_from_slice(3, bytes)

(***************************************************************************)
(* CityCode                                                                *)
(***************************************************************************)

\* a range widened to start at 'Ё' (U+0401)
CityCode_accepts_from_io(c) == c >= 1025 /\ c <= CYRILLIC_YA

\* the test of one character in CityCode::from_str
CityCode_accepts(c) == c >= CYRILLIC_A /\ c <= CYRILLIC_YA

RECURSIVE CityCode_scan(_)
CityCode_scan(s) ==
    IF s = <<>> THEN Scanned(0)
    ELSE IF CityCode_accepts(Head(s)) THEN CityCode_scan(Tail(s))
    ELSE InvalidLetter(Head(s))

CityCode_from_str(v) ==
    IF chars_count(v) # 3 THEN InvalidLength(len(v))
    ELSE LET s == CityCode_scan(v)
         IN  IF s.tag = "InvalidLetter" THEN s
             ELSE copy_from_slice(3, KOI8_R_encode(v))

CityCode_from_bytes_unchecked(bytes) == copy_from_slice(3, bytes)

(***************************************************************************)
(* The four kinds side by side.                                            *)
(***************************************************************************)

\* the length of the kind's byte array
CodeLen(k) == IF k = "AirlineCode" THEN 2 ELSE 3

\* <K as FromStr>::from_str
from_str(k, v) ==
    CASE k = "AircraftCode" -> AircraftCode_from_str(v)
      [] k = "AirlineCode" -> AirlineCode_from_str(v)
      [] k = "AirportCode" -> AirportCode_from_str(v)
      [] k = "CityCode" -> CityCode_from_str(v)

\* K::from_bytes_unchecked, for the kinds that have it
from_bytes_unchecked(k, bytes) ==
    CASE k = "AirlineCode" -> AirlineCode_from_bytes_unchecked(bytes)
      [] k = "AirportCode" -> AirportCode_from_bytes_unchecked(bytes)
      [] k = "CityCode" -> CityCode_from_bytes_unchecked(bytes)

(***************************************************************************)
(* The state machine: one kind and one input text per behaviour; from_str  *)
(* runs on it, and on the value it returns run as_str, Display and         *)
(* from_bytes_unchecked(as_bytes()).                                       *)
(***************************************************************************)

None == [some |-> FALSE, v |-> <<>>]
Some(x) == [some |-> TRUE, v |-> x]

Init ==
    /\ kind \in Kinds
    /\ value \in Texts
    /\ result = NoResult
    /\ text = None
    /\ shown = None
    /\ rebuilt = NoResult

AircraftCode_FromStr ==
    /\ kind = "AircraftCode"
    /\ result = NoResult
    /\ result' = AircraftCode_from_str(value)
    /\ UNCHANGED <<kind, value, text, shown, rebuilt>>

AirlineCode_FromStr ==
    /\ kind = "AirlineCode"
    /\ result = NoResult
    /\ result' = AirlineCode_from_str(value)
    /\ UNCHANGED <<kind, value, text, shown, rebuilt>>

AirportCode_FromStr ==
    /\ kind = "AirportCode"
    /\ result = NoResult
    /\ result' = AirportCode_from_str(value)
    /\ UNCHANGED <<kind, value, text, shown, rebuilt>>

CityCode_FromStr ==
    /\ kind = "CityCode"
    /\ result = NoResult
    /\ result' = CityCode_from_str(value)
    /\ UNCHANGED <<kind, value, text, shown, rebuilt>>

AsStr ==
    /\ result.tag = "Ok"
    /\ text = None
    /\ text' = Some(as_str(result.bytes))
    /\ UNCHANGED <<kind, value, result, shown, rebuilt>>

Display ==
    /\ result.tag = "Ok"
    /\ shown = None
    /\ shown' = Some(fmt(result.bytes))
    /\ UNCHANGED <<kind, value, result, text, rebuilt>>

AirlineCode_FromBytesUnchecked ==
    /\ kind = "AirlineCode"
    /\ result.tag = "Ok"
    /\ rebuilt = NoResult
    /\ rebuilt' = AirlineCode_from_bytes_unchecked(as_bytes(result.bytes))
    /\ UNCHANGED <<kind, value, result, text, shown>>

AirportCode_FromBytesUnchecked ==
    /\ kind = "AirportCode"
    /\ result.tag = "Ok"
    /\ rebuilt = NoResult
    /\ rebuilt' = AirportCode_from_bytes_unchecked(as_bytes(result.bytes))
    /\ UNCHANGED <<kind, value, result, text, shown>>

CityCode_FromBytesUnchecked ==
    /\ kind = "CityCode"
    /\ result.tag = "Ok"
    /\ rebuilt = NoResult
    /\ rebuilt' = CityCode_from_bytes_unchecked(as_bytes(result.bytes))
    /\ UNCHANGED <<kind, value, result, text, shown>>

Next ==
    \/ AircraftCode_FromStr
    \/ AirlineCode_FromStr
    \/ AirportCode_FromStr
    \/ CityCode_FromStr
    \/ AsStr
    \/ Display
    \/ AirlineCode_FromBytesUnchecked
    \/ AirportCode_FromBytesUnchecked
    \/ CityCode_FromBytesUnchecked

Spec == Init /\ [][Next]_vars

(***************************************************************************)
(* Vocabulary of the properties, stated apart from the code's own tests.   *)
(***************************************************************************)

\* from_str has returned
Parsed == result # NoResult

\* the capital letters 'А' .. 'Я', U+0410 .. U+042F
IsLetter(c) == c \in 1040 .. 1071

IsDigit(c) == c \in 48 .. 57

\* 'Ё', U+0401
IsIO(c) == c = 1025

\* the positions of s whose character satisfies none of letter / digit
Offenders(s) == {i \in 1 .. Len(s) : ~IsLetter(s[i]) /\ ~IsDigit(s[i])}

NonLetters(s) == {i \in 1 .. Len(s) : ~IsLetter(s[i])}

Digits(s) == {i \in 1 .. Len(s) : IsDigit(s[i])}

First(S) == CHOOSE i \in S : \A j \in S : i <= j

RightLength == chars_count(value) = CodeLen(kind)

\* the input texts of the kind's length
TextsOfKind ==
    [1 .. CodeLen(kind) -> CoreChars]
    \cup {[i \in 1 .. CodeLen(kind) |-> c] : c \in WideChars}

(***************************************************************************)
(* C1  Round trip.                                                         *)
(***************************************************************************)

\* C1: for every kind and every text that from_str accepts, as_str and
\* Display of the returned value give back exactly that text.
C1_RoundTrip ==
    /\ text.some => text.v = value
    /\ shown.some => shown.v = value

(***************************************************************************)
(* C2  InvalidLength                                                       *)
(***************************************************************************)

\* C2: a text whose character count differs from the kind's length is
\* rejected with InvalidLength carrying that character count.
C2_InvalidLengthCarriesCharCount ==
    (Parsed /\ ~RightLength) => result = InvalidLength(chars_count(value))

(***************************************************************************)
(* C3  Digits in the three-character kinds                                 *)
(***************************************************************************)

ThreeCharKinds == {"AircraftCode", "AirportCode", "CityCode"}

\* C3 as stated: aircraft, airport and city codes all accept digits; a
\* three-character text of letters and digits parses, and only a character
\* that is neither is rejected.
C3_DigitsAcceptedInThreeKinds ==
    (Parsed /\ kind \in ThreeCharKinds /\ RightLength) =>
        /\ Offenders(value) = {} => result.tag = "Ok"
        /\ result.tag = "InvalidLetter" =>
               ~IsLetter(result.arg) /\ ~IsDigit(result.arg)

\* C3 amended: only aircraft codes accept digits.  A three-character text
\* of letters and digits parses as an aircraft code; an airport or city
\* code parses exactly when all three characters are letters, and a digit
\* in it is rejected as InvalidLetter like any other character.
C3_DigitsAcceptedInAircraftOnly ==
    /\ (Parsed /\ kind = "AircraftCode" /\ RightLength) =>
           /\ Offenders(value) = {} => result.tag = "Ok"
           /\ result.tag = "InvalidLetter" =>
                  ~IsLetter(result.arg) /\ ~IsDigit(result.arg)
    /\ (Parsed /\ kind \in {"AirportCode", "CityCode"} /\ RightLength) =>
           /\ NonLetters(value) = {} => result.tag = "Ok"
           /\ NonLetters(value) # {} =>
                  result = InvalidLetter(value[First(NonLetters(value))])

\* an airport code of letters and digits only, with a digit, was rejected
\* for the digit
C3_Witness ==
    /\ kind = "AirportCode"
    /\ RightLength
    /\ Offenders(value) = {}
    /\ Digits(value) # {}
    /\ result = InvalidLetter(value[First(Digits(value))])

(***************************************************************************)
(* C4  The airline digit rule                                              *)
(***************************************************************************)

\* C4: a two-character airline text of letters and digits fails with
\* TooManyDigits(2) when both characters are digits and parses when at
\* most one is.
C4_AirlineDigitRule ==
    (Parsed /\ kind = "AirlineCode" /\ RightLength /\ Offenders(value) = {}) =>
        /\ Cardinality(Digits(value)) = 2 => result = TooManyDigits(2)
        /\ Cardinality(Digits(value)) <= 1 => result.tag = "Ok"

\* two digits were rejected
C4_Witness ==
    /\ kind = "AirlineCode"
    /\ Cardinality(Digits(value)) = 2
    /\ result = TooManyDigits(2)

(***************************************************************************)
(* C5  InvalidLetter names the first offender                              *)
(***************************************************************************)

\* C5 as stated: in every kind a right-length text with a character that
\* is neither letter nor digit fails with InvalidLetter of the first such
\* character.
C5_FirstNonLetterNonDigit ==
    (Parsed /\ RightLength /\ Offenders(value) # {}) =>
        result = InvalidLetter(value[First(Offenders(value))])

\* the characters a kind's validation lets pass
Allowed(k, c) ==
    IsLetter(c) \/ (IsDigit(c) /\ k \in {"AircraftCode", "AirlineCode"})

Rejected(k, s) == {i \in 1 .. Len(s) : ~Allowed(k, s[i])}

\* C5 amended: a right-length text with a character the kind does not
\* allow fails with InvalidLetter of the first such character, where
\* aircraft and airline codes allow letters and digits and airport and
\* city codes allow letters only (so there a digit ahead of another
\* offender is the character named).
C5_FirstRejectedCharacter ==
    (Parsed /\ RightLength /\ Rejected(kind, value) # {}) =>
        result = InvalidLetter(value[First(Rejected(kind, value))])

\* an airline text with a digit ahead of a Latin letter named the letter
C5_Witness ==
    /\ kind = "AirlineCode"
    /\ RightLength
    /\ IsDigit(value[1])
    /\ 2 \in Offenders(value)
    /\ result = InvalidLetter(value[2])

(***************************************************************************)
(* C6  The accepted letters                                                *)
(***************************************************************************)

\* C6 as stated: the 33 capital letters, 'А' .. 'Я' and 'Ё', are all
\* letters of validation: a right-length text of them parses.
C6_ThirtyThreeLetters ==
    (Parsed /\ RightLength
       /\ \A i \in 1 .. Len(value) : IsLetter(value[i]) \/ IsIO(value[i])) =>
        result.tag = "Ok"

\* C6 amended: the accepted letters are the 32 capitals 'А' .. 'Я'
\* (U+0410 .. U+042F); 'Ё' (U+0401) is not among them.  In every kind a
\* right-length text of letters 'А' .. 'Я' parses, a right-length text
\* holding 'Ё' fails with InvalidLetter, and every character of a parsed
\* text is one of the 32 letters or a digit.
C6_ThirtyTwoLetters ==
    (Parsed /\ RightLength) =>
        /\ NonLetters(value) = {} => result.tag = "Ok"
        /\ (\E i \in 1 .. Len(value) : IsIO(value[i])) =>
               result.tag = "InvalidLetter"
        /\ result.tag = "Ok" => Offenders(value) = {}

\* a text of 'Ё' alone was rejected for it
C6_Witness ==
    /\ RightLength
    /\ \A i \in 1 .. Len(value) : IsIO(value[i])
    /\ result = InvalidLetter(value[1])

(***************************************************************************)
(* C7  Equality                                                            *)
(***************************************************************************)

\* C7: two texts that both parse as the same kind give equal values
\* exactly when the texts are the same.
C7_EqualIffSameText ==
    result.tag = "Ok" =>
        \A t \in TextsOfKind :
            LET other == from_str(kind, t)
            IN  other.tag = "Ok" =>
                    (Code_eq(result.bytes, other.bytes) <=> t = value)

\* a parsed value beside a second, different text that parses too
C7_Witness ==
    /\ result.tag = "Ok"
    /\ \E t \in TextsOfKind :
           /\ t # value
           /\ from_str(kind, t).tag = "Ok"
           /\ ~Code_eq(result.bytes, from_str(kind, t).bytes)

(***************************************************************************)
(* C8  Ordering                                                            *)
(***************************************************************************)

\* C8 as stated: a < b for two parsed values exactly when the decoded text
\* of a is less than the decoded text of b.
C8_OrderIsTextOrder ==
    result.tag = "Ok" =>
        \A t \in TextsOfKind :
            LET other == from_str(kind, t)
            IN  other.tag = "Ok" =>
                    (Code_lt(result.bytes, other.bytes)
                        <=> str_lt(as_str(result.bytes), as_str(other.bytes)))

\* the KOI8-R collation: the digits, then the capitals in the order
\* Ю А Б Ц Д Е Ф Г Х И Й К Л М Н О П Я Р С Т У Ж В Ь Ы З Ш Э Щ Ч Ъ
Koi8Collation ==
    << 48, 49, 50, 51, 52, 53, 54, 55, 56, 57,
       1070, 1040, 1041, 1062, 1044, 1045, 1060, 1043,
       1061, 1048, 1049, 1050, 1051, 1052, 1053, 1054,
       1055, 1071, 1056, 1057, 1058, 1059, 1046, 1042,
       1068, 1067, 1047, 1064, 1069, 1065, 1063, 1066 >>

Rank(c) == CHOOSE i \in 1 .. Len(Koi8Collation) : Koi8Collation[i] = c

\* s before t, character by character, in the KOI8-R collation
CollatesBefore(s, t) ==
    seq_lt([i \in 1 .. Len(s) |-> Rank(s[i])], [i \in 1 .. Len(t) |-> Rank(t[i])])

\* C8 amended: the order of two parsed values is the order of their texts
\* in the KOI8-R collation (digits first, then Ю А Б Ц Д Е Ф Г Х И Й К Л М
\* Н О П Я Р С Т У Ж В Ь Ы З Ш Э Щ Ч Ъ), which is a total order on the
\* values but not the order of the texts themselves.
C8_OrderIsKoi8Collation ==
    result.tag = "Ok" =>
        \A t \in TextsOfKind :
            LET other == from_str(kind, t)
            IN  other.tag = "Ok" =>
                    /\ Code_lt(result.bytes, other.bytes)
                           <=> CollatesBefore(value, t)
                    /\ Code_lt(other.bytes, result.bytes)
                           <=> CollatesBefore(t, value)
                    /\ t # value =>
                           (Code_lt(result.bytes, other.bytes)
                               <=> ~Code_lt(other.bytes, result.bytes))

\* a parsed value that sorts before another whose text sorts before its own
C8_Witness ==
    /\ result.tag = "Ok"
    /\ \E t \in TextsOfKind :
           /\ from_str(kind, t).tag = "Ok"
           /\ Code_lt(result.bytes, from_str(kind, t).bytes)
           /\ str_lt(t, value)

(***************************************************************************)
(* C9  from_str is total                                                   *)
(***************************************************************************)

\* C9: from_str returns a value or one of its errors on every text and
\* never panics: when validation passes, the KOI8-R bytes are one per
\* character, as many as the kind's array holds.
C9_Total ==
    Parsed =>
        /\ result.tag \in {"Ok", "InvalidLength", "InvalidLetter", "TooManyDigits"}
        /\ result.tag = "TooManyDigits" => kind = "AirlineCode"
        /\ result.tag = "Ok" =>
               /\ Len(result.bytes) = CodeLen(kind)
               /\ Len(KOI8_R_encode(value)) = chars_count(value)
               /\ result.bytes = KOI8_R_encode(value)

\* a right-length text of a character KOI8-R cannot hold was rejected
C9_Witness ==
    /\ RightLength
    /\ Len(KOI8_R_encode(value)) # chars_count(value)
    /\ result.tag = "InvalidLetter"

(***************************************************************************)
(* C10  from_bytes_unchecked(as_bytes())                                   *)
(***************************************************************************)

\* C10: for an airline, airport or city value c that from_str returned,
\* from_bytes_unchecked(c.as_bytes()) equals c, has c's bytes and c's
\* decoded text, and that text passes from_str again.
C10_UncheckedRoundTrip ==
    rebuilt # NoResult =>
        /\ rebuilt.tag = "Ok"
        /\ Code_eq(rebuilt.bytes, result.bytes)
        /\ as_bytes(rebuilt.bytes) = as_bytes(result.bytes)
        /\ as_str(rebuilt.bytes) = as_str(result.bytes)
        /\ from_str(kind, as_str(rebuilt.bytes)) = Ok(result.bytes)

=============================================================================
